---- MODULE Spec2Model ----
(***************************************************************************)
(* A model of the job tracker: the Flask backend (backend-python/app.py),  *)
(* its Cassandra adapter and start-up paths, and the Flask frontend        *)
(* (frontend-python/app.py) that proxies to it.                            *)
(*                                                                         *)
(* Two backend pods share one Cassandra cluster.  Every session.execute of *)
(* the source is one step of the model, so that the statements of          *)
(* initialize_schema of different pods interleave.  A request handler is   *)
(* one step (Flask runs it to completion on one worker; every handler      *)
(* issues at most one statement).                                          *)
(*                                                                         *)
(* Python values: Optional[T] is a sequence of length <= 1 (None is <<>>), *)
(* a dict is a record (a function on the keys present), a JSON body is the *)
(* value it encodes.  created_at / updated_at are left out of the rows: no *)
(* statement of the source reads them back other than to print them.       *)
(***************************************************************************)
EXTENDS Integers, Sequences, FiniteSets, TLC

VARIABLES
    storeUp,      \* the cluster answers statements and new connections
    faults,       \* how many times the cluster went down or came back
    ksExists,     \* the keyspace CASSANDRA_KEYSPACE exists in the cluster
    tableExists,  \* the table jobs exists in that keyspace
    jobs,         \* the rows of the table jobs
    seq,          \* per pod: how many uuid() values its statements drew
    phase,        \* per pod: where the backend process is
    step,         \* per pod: the statement initialization is about to run
    seedIdx,      \* per pod: rows inserted by the sample_jobs loop of the
                  \* current (or last) run of initialize_schema
    count,        \* per pod: result[0].count of that run (-1: not read)
    session,      \* per pod: cassandra_manager.session
    exitCode,     \* per pod: the process's exit status (-1: none)
    initOk,       \* per pod: what initialize_cassandra last returned
    hist,         \* history: runs of initialize_schema that returned True /
                  \* False, and whether two runs ever overlapped
    last          \* the HTTP exchange the latest step completed, until its
                  \* response is handed over (NoExchange otherwise)

vars == <<storeUp, faults, ksExists, tableExists, jobs, seq, phase, step,
          seedIdx, count, session, exitCode, initOk, hist, last>>

-----------------------------------------------------------------------------
(* Bounds of the model *)

MaxFaults == 2
MaxCreates == 1

\* The backend pods.  Each is started either by `python app.py` ("script":
\* the __main__ block runs, then app.run) or imported by a WSGI server
\* ("wsgi": only the before_first_request hook initializes).
Pods == {"pod1", "pod2"}
LaunchModes == {"script", "wsgi"}

-----------------------------------------------------------------------------
(* Python values *)

None == <<>>
Some(v) == <<v>>

\* dict.get(key, default)
Get(d, k, default) == IF k \in DOMAIN d THEN d[k] ELSE default

\* truth value of a str
StrTruthy(s) == s # ""

\* truth value of Optional[dict]: None and {} are false
DictTruthy(o) == o # None /\ DOMAIN o[1] # {}

\* str(job.id)
Str(u) == <<"str", u>>

-----------------------------------------------------------------------------
(* The table *)

\* sample_jobs, with the 'unassigned' the loop passes for every row
SampleCount == 5
sample_jobs == <<
    [title |-> "Database Migration", description |-> "Migrate database to latest version",
     status |-> "pending", priority |-> 1],
    [title |-> "API Development", description |-> "Develop REST API endpoints",
     status |-> "in_progress", priority |-> 2],
    [title |-> "Testing Suite", description |-> "Create comprehensive test suite",
     status |-> "pending", priority |-> 3],
    [title |-> "Documentation", description |-> "Write technical documentation",
     status |-> "pending", priority |-> 4],
    [title |-> "Performance Optimization", description |-> "Optimize application performance",
     status |-> "pending", priority |-> 5] >>

SampleTitles == {sample_jobs[k].title : k \in 1..SampleCount}

\* INSERT INTO jobs (id, ...) VALUES (uuid(), ...): the row a statement of pod
\* p writes.  uuid() is fresh: the pod's name and its draw number.
Row(p, title, description, status, assigned_to, priority) ==
    [id |-> <<p, seq[p]>>, title |-> title, description |-> description,
     status |-> status, assigned_to |-> assigned_to, priority |-> priority]

\* the dict both readers build from a row
JobDict(r) ==
    [id |-> Str(r.id), title |-> r.title, description |-> r.description,
     status |-> r.status, priority |-> r.priority, assigned_to |-> r.assigned_to]

SeedRows == {r \in jobs : r.title \in SampleTitles}
ApiRows == jobs \ SeedRows

-----------------------------------------------------------------------------
(* session.execute *)

\* A statement on the session raises unless the session exists and the
\* cluster answers (self.session None: AttributeError).
CanExecute(p) == session[p] # "none" /\ storeUp

\* A statement on the table jobs also needs the session's keyspace set by
\* USE, and the table.
CanQuery(p) == CanExecute(p) /\ session[p] = "open_ks" /\ tableExists

-----------------------------------------------------------------------------
(* Initialization: connect and initialize_schema, statement by statement *)

SchemaSteps == {"create_ks", "use_ks", "create_table", "count", "insert"}

\* two pods are inside initialize_schema at once
Overlap(st) == \E p, q \in Pods : p # q /\ st[p] \in SchemaSteps /\ st[q] \in SchemaSteps

Hist(st, ok, bad) ==
    [ok |-> hist.ok + ok, bad |-> hist.bad + bad,
     overlapped |-> hist.overlapped \/ Overlap(st)]

\* if result[0].count == 0
ShouldSeed_always(n) == TRUE
ShouldSeed_incomplete(n) == n < SampleCount
ShouldSeed(n) == n = 0

\* no exchange completed in this step
NoExchange ==
    [via |-> "none", pod |-> "-", route |-> "-", req |-> None, status |-> 0,
     body |-> None, fstatus |-> 0, fbody |-> None]

Init ==
    /\ storeUp = TRUE
    /\ faults = 0
    /\ ksExists = FALSE
    /\ tableExists = FALSE
    /\ jobs = {}
    /\ seq = [p \in Pods |-> 0]
    /\ phase = [p \in Pods |-> "off"]
    /\ step = [p \in Pods |-> "idle"]
    /\ seedIdx = [p \in Pods |-> 0]
    /\ count = [p \in Pods |-> -1]
    /\ session = [p \in Pods |-> "none"]
    /\ exitCode = [p \in Pods |-> -1]
    /\ initOk = [p \in Pods |-> "unset"]
    /\ hist = [ok |-> 0, bad |-> 0, overlapped |-> FALSE]
    /\ last = NoExchange

\* no response is waiting to be handed over
Idle == last = NoExchange

\* the variables a step of initialization leaves alone
InitFrame == UNCHANGED <<storeUp, faults, last>>

\* `python app.py` enters the __main__ block; a WSGI server imports the module
\* and listens at once.
Launch(p, mode) ==
    /\ Idle
    /\ phase[p] = "off"
    /\ phase' = [phase EXCEPT ![p] = IF mode = "script" THEN "main" ELSE "listening"]
    /\ step' = [step EXCEPT ![p] = IF mode = "script" THEN "connect" ELSE "idle"]
    /\ hist' = Hist(step', 0, 0)
    /\ InitFrame
    /\ UNCHANGED <<ksExists, tableExists, jobs, seq, seedIdx, count, session, exitCode, initOk>>

\* The first request to a listening pod runs the before_first_request hook,
\* initialize_cassandra, before any view function.
FirstRequest(p) ==
    /\ Idle
    /\ phase[p] = "listening"
    /\ phase' = [phase EXCEPT ![p] = "hook"]
    /\ step' = [step EXCEPT ![p] = "connect"]
    /\ hist' = Hist(step', 0, 0)
    /\ InitFrame
    /\ UNCHANGED <<ksExists, tableExists, jobs, seq, seedIdx, count, session, exitCode, initOk>>

\* What the caller does with a False from connect or initialize_schema: the
\* __main__ block calls exit(1); initialize_cassandra logs and returns False,
\* which Flask ignores, and the pod serves.
\* schema: the False came from initialize_schema.
Failed(p, schema) ==
    /\ phase' = [phase EXCEPT ![p] = IF phase[p] = "main" THEN "exited" ELSE "ready"]
    /\ exitCode' = [exitCode EXCEPT ![p] = IF phase[p] = "main" THEN 1 ELSE @]
    /\ initOk' = [initOk EXCEPT ![p] = IF phase[p] = "main" THEN @ ELSE "false"]
    /\ step' = [step EXCEPT ![p] = "idle"]
    /\ hist' = Hist(step', 0, IF schema THEN 1 ELSE 0)

\* initialize_schema returned True: the __main__ block goes on to app.run,
\* initialize_cassandra returns True.
Succeeded(p) ==
    /\ phase' = [phase EXCEPT ![p] = IF phase[p] = "main" THEN "listening" ELSE "ready"]
    /\ initOk' = [initOk EXCEPT ![p] = IF phase[p] = "main" THEN @ ELSE "true"]
    /\ step' = [step EXCEPT ![p] = "idle"]
    /\ hist' = Hist(step', 1, 0)
    /\ UNCHANGED exitCode

\* the next statement of initialize_schema
Goto(p, s) ==
    /\ step' = [step EXCEPT ![p] = s]
    /\ hist' = Hist(step', 0, 0)
    /\ UNCHANGED <<phase, exitCode, initOk>>

\* CassandraManager.connect: a new Cluster and session (no keyspace yet), or
\* False with self.session as it was.
Connect(p) ==
    /\ Idle
    /\ phase[p] \in {"main", "hook"}
    /\ step[p] = "connect"
    /\ IF storeUp
         THEN /\ session' = [session EXCEPT ![p] = "open"]
              /\ seedIdx' = [seedIdx EXCEPT ![p] = 0]
              /\ count' = [count EXCEPT ![p] = -1]
              /\ Goto(p, "create_ks")
         ELSE /\ Failed(p, FALSE)
              /\ UNCHANGED <<session, seedIdx, count>>
    /\ InitFrame
    /\ UNCHANGED <<ksExists, tableExists, jobs, seq>>

\* CREATE KEYSPACE IF NOT EXISTS
CreateKeyspace(p) ==
    /\ Idle
    /\ step[p] = "create_ks"
    /\ IF CanExecute(p)
         THEN ksExists' = TRUE /\ Goto(p, "use_ks")
         ELSE UNCHANGED ksExists /\ Failed(p, TRUE)
    /\ InitFrame
    /\ UNCHANGED <<tableExists, jobs, seq, seedIdx, count, session>>

\* USE keyspace
UseKeyspace(p) ==
    /\ Idle
    /\ step[p] = "use_ks"
    /\ IF CanExecute(p) /\ ksExists
         THEN session' = [session EXCEPT ![p] = "open_ks"] /\ Goto(p, "create_table")
         ELSE UNCHANGED session /\ Failed(p, TRUE)
    /\ InitFrame
    /\ UNCHANGED <<ksExists, tableExists, jobs, seq, seedIdx, count>>

\* CREATE TABLE IF NOT EXISTS jobs
CreateTable(p) ==
    /\ Idle
    /\ step[p] = "create_table"
    /\ IF CanExecute(p) /\ session[p] = "open_ks"
         THEN tableExists' = TRUE /\ Goto(p, "count")
         ELSE UNCHANGED tableExists /\ Failed(p, TRUE)
    /\ InitFrame
    /\ UNCHANGED <<ksExists, jobs, seq, seedIdx, count, session>>

\* SELECT COUNT(*) FROM jobs, and the test on it: seed, or return True
CountJobs(p) ==
    /\ Idle
    /\ step[p] = "count"
    /\ IF CanQuery(p)
         THEN /\ count' = [count EXCEPT ![p] = Cardinality(jobs)]
              /\ IF ShouldSeed(Cardinality(jobs)) THEN Goto(p, "insert") ELSE Succeeded(p)
         ELSE UNCHANGED count /\ Failed(p, TRUE)
    /\ InitFrame
    /\ UNCHANGED <<ksExists, tableExists, jobs, seq, seedIdx, session>>

\* one turn of the sample_jobs loop; after the last one, return True
InsertSeed(p) ==
    /\ Idle
    /\ step[p] = "insert"
    /\ IF CanQuery(p)
         THEN /\ LET j == sample_jobs[seedIdx[p] + 1]
                 IN jobs' = jobs \cup {Row(p, j.title, j.description, j.status,
                                            "unassigned", j.priority)}
              /\ seq' = [seq EXCEPT ![p] = @ + 1]
              /\ seedIdx' = [seedIdx EXCEPT ![p] = @ + 1]
              /\ IF seedIdx[p] + 1 = SampleCount THEN Succeeded(p) ELSE Goto(p, "insert")
         ELSE UNCHANGED <<jobs, seq, seedIdx>> /\ Failed(p, TRUE)
    /\ InitFrame
    /\ UNCHANGED <<ksExists, tableExists, count, session>>

-----------------------------------------------------------------------------
(* The cluster *)

StoreFail ==
    /\ Idle
    /\ storeUp /\ faults < MaxFaults
    /\ storeUp' = FALSE /\ faults' = faults + 1
    /\ UNCHANGED <<last, ksExists, tableExists, jobs, seq, phase, step, seedIdx, count,
                   session, exitCode, initOk, hist>>

StoreRecover ==
    /\ Idle
    /\ ~storeUp /\ faults < MaxFaults
    /\ storeUp' = TRUE /\ faults' = faults + 1
    /\ UNCHANGED <<last, ksExists, tableExists, jobs, seq, phase, step, seedIdx, count,
                   session, exitCode, initOk, hist>>

-----------------------------------------------------------------------------
(* The backend: adapter reads, and the view functions *)

\* try: ... except Exception: log, return the sentinel.  What a method of
\* CassandraManager hands its caller: never an exception.
Caught(raised, value, sentinel) ==
    [exc |-> FALSE, val |-> IF raised THEN sentinel ELSE value]

\* CassandraManager.get_random_job: result[0] of SELECT * FROM jobs LIMIT 5,
\* which has no ORDER BY: any row may come first.
get_random_job_results(p) ==
    IF ~CanQuery(p) THEN {Caught(TRUE, None, None)}
    ELSE IF jobs = {} THEN {Caught(FALSE, None, None)}
    ELSE {Caught(FALSE, Some(JobDict(r)), None) : r \in jobs}

\* CassandraManager.get_all_jobs: the rows are distinct, the list is given by
\* its elements.
get_all_jobs_result(p) ==
    Caught(~CanQuery(p), {JobDict(r) : r \in jobs}, {})

\* GET /
get_random_job(p, res) ==
    IF res.exc
    THEN [status |-> 500,
          body |-> [error |-> "Failed to fetch job from database", pod |-> p]]
    ELSE [status |-> 200,
          body |-> [job |-> IF DictTruthy(res.val) THEN res.val[1]
                            ELSE [title |-> "No jobs found",
                                  description |-> "Database is empty"],
                    pod |-> p, database |-> "Cassandra",
                    cluster_info |-> [connection_status |-> "connected",
                                      language |-> "Python"]]]

\* GET /jobs
get_all_jobs(p, res) ==
    IF res.exc
    THEN [status |-> 500, body |-> [error |-> "Failed to fetch jobs"]]
    ELSE [status |-> 200,
          body |-> [jobs |-> res.val, total |-> Cardinality(res.val),
                    pod |-> p, language |-> "Python"]]

\* not data.get(key)
Missing(d, k) == k \notin DOMAIN d \/ ~StrTruthy(d[k])

\* if not data or not data.get('title') or not data.get('description')
Rejected_absent_only(data) ==
    ~DictTruthy(data) \/ "title" \notin DOMAIN data[1] \/ "description" \notin DOMAIN data[1]
Rejected(data) ==
    ~DictTruthy(data) \/ Missing(data[1], "title") \/ Missing(data[1], "description")

\* the row POST /jobs asks the adapter to insert
NewJob_no_defaults(p, d) ==
    Row(p, d.title, d.description, Get(d, "status", ""),
        Get(d, "assigned_to", ""), Get(d, "priority", 0))
NewJob(p, d) ==
    Row(p, d.title, d.description, Get(d, "status", "pending"),
        Get(d, "assigned_to", "unassigned"), Get(d, "priority", 1))

\* POST /jobs, given what the adapter's create_job returned
create_job(p, data, created) ==
    IF Rejected(data)
    THEN [status |-> 400, body |-> [error |-> "Title and description are required"]]
    ELSE IF created
    THEN [status |-> 200,
          body |-> [message |-> "Job created successfully", pod |-> p,
                    language |-> "Python"]]
    ELSE [status |-> 500, body |-> [error |-> "Failed to create job"]]

\* db_status = 'connected' if job is not None else 'disconnected'
DbStatus_always(job) == "connected"
DbStatus(job) == IF job # None THEN "connected" ELSE "disconnected"

\* GET /health
health_check(p, res) ==
    IF res.exc
    THEN [status |-> 500,
          body |-> [status |-> "unhealthy", pod |-> p, database |-> "disconnected",
                    language |-> "Python"]]
    ELSE [status |-> 200,
          body |-> [status |-> "healthy", pod |-> p, database |-> DbStatus(res.val),
                    language |-> "Python", version |-> "1.0.0"]]

\* GET /info
get_info(p) ==
    [status |-> 200,
     body |-> [service |-> "Backend API", language |-> "Python", framework |-> "Flask",
               database |-> "Cassandra", version |-> "1.0.0", pod |-> p]]

-----------------------------------------------------------------------------
(* The frontend: BackendService and the proxy routes *)

\* A method of BackendService: the session call, raise_for_status and
\* response.json(), with every exception turned into None.
\* delivered: the backend answered (otherwise requests raises).
BackendCall(delivered, resp) ==
    IF ~delivered THEN None
    ELSE IF resp.status >= 400 THEN None
    ELSE Some(resp.body)

FrontError ==
    [api_job |-> "Failed to fetch job from backend",
     api_jobs |-> "Failed to fetch jobs from backend",
     api_create |-> "Failed to create job",
     api_health |-> "Backend service unavailable"]

\* if data: return jsonify(data); return jsonify({'error': ...}), 500
Proxy_always_200(froute, data) ==
    [status |-> 200,
     body |-> IF DictTruthy(data) THEN data[1] ELSE [error |-> FrontError[froute]]]
Proxy(froute, data) ==
    IF DictTruthy(data) THEN [status |-> 200, body |-> data[1]]
    ELSE [status |-> 500, body |-> [error |-> FrontError[froute]]]

\* GET /api/info
api_info ==
    [status |-> 200,
     body |-> [service |-> "Frontend Application", language |-> "Python",
               framework |-> "Flask", version |-> "1.0.0"]]

-----------------------------------------------------------------------------
(* Requests *)

\* The exchange a step completes: the backend's answer resp of pod p to
\* route with body req, and, when the request came through the frontend
\* (via names the proxy route), the frontend's answer to its own client.
Exchange(via, p, route, req, resp) ==
    LET f == IF via = "direct" THEN [status |-> 0, body |-> None]
             ELSE Proxy(via, BackendCall(TRUE, resp))
    IN [via |-> via, pod |-> p, route |-> route, req |-> req,
        status |-> resp.status, body |-> resp.body,
        fstatus |-> f.status, fbody |-> f.body]

\* the frontend's answer when its call to the backend raised
Unreachable(via, req) ==
    LET f == Proxy(via, BackendCall(FALSE, [status |-> 0, body |-> None]))
    IN [via |-> via, pod |-> "-", route |-> "-", req |-> req,
        status |-> 0, body |-> None, fstatus |-> f.status, fbody |-> f.body]

ReadFrame ==
    UNCHANGED <<storeUp, faults, ksExists, tableExists, jobs, seq, phase, step,
                seedIdx, count, session, exitCode, initOk, hist>>

\* the JSON bodies a client posts: none, {}, one field missing or empty,
\* the two required fields, and every field
Bodies ==
    { None,
      Some(<<>>),
      Some([title |-> "t"]),
      Some([description |-> "d"]),
      Some([title |-> "", description |-> "d"]),
      Some([title |-> "t", description |-> ""]),
      Some([title |-> "t", description |-> "d"]),
      Some([title |-> "t", description |-> "d", status |-> "done",
            assigned_to |-> "bob", priority |-> 3]) }

ServeRoot(via, p) ==
    /\ Idle
    /\ phase[p] = "ready"
    /\ \E res \in get_random_job_results(p) :
          last' = Exchange(via, p, "GET /", None, get_random_job(p, res))
    /\ ReadFrame

ServeJobs(via, p) ==
    /\ Idle
    /\ phase[p] = "ready"
    /\ last' = Exchange(via, p, "GET /jobs", None, get_all_jobs(p, get_all_jobs_result(p)))
    /\ ReadFrame

ServeHealth(via, p) ==
    /\ Idle
    /\ phase[p] = "ready"
    /\ \E res \in get_random_job_results(p) :
          last' = Exchange(via, p, "GET /health", None, health_check(p, res))
    /\ ReadFrame

\* POST /jobs, with CassandraManager.create_job: the INSERT, True, or False
\* when the statement raised
ServeCreate(via, p, data) ==
    /\ Idle
    /\ phase[p] = "ready"
    /\ LET insert == ~Rejected(data) /\ CanQuery(p)
       IN /\ insert => Cardinality(ApiRows) < MaxCreates
          /\ jobs' = IF insert THEN jobs \cup {NewJob(p, data[1])} ELSE jobs
          /\ seq' = IF insert THEN [seq EXCEPT ![p] = @ + 1] ELSE seq
          /\ last' = Exchange(via, p, "POST /jobs", data, create_job(p, data, insert))
    /\ UNCHANGED <<storeUp, faults, ksExists, tableExists, phase, step,
                   seedIdx, count, session, exitCode, initOk, hist>>

ServeInfo(p) ==
    /\ Idle
    /\ phase[p] = "ready"
    /\ last' = Exchange("direct", p, "GET /info", None, get_info(p))
    /\ ReadFrame

\* the frontend's routes: the backend service hands the call to a pod that
\* serves, or the call fails
ApiJob ==
    \/ \E p \in Pods : ServeRoot("api_job", p)
    \/ Idle /\ last' = Unreachable("api_job", None) /\ ReadFrame

ApiJobs ==
    \/ \E p \in Pods : ServeJobs("api_jobs", p)
    \/ Idle /\ last' = Unreachable("api_jobs", None) /\ ReadFrame

ApiHealth ==
    \/ \E p \in Pods : ServeHealth("api_health", p)
    \/ Idle /\ last' = Unreachable("api_health", None) /\ ReadFrame

\* POST /api/jobs: if not job_data: 400, without a call to the backend
ApiCreateJob(data) ==
    IF ~DictTruthy(data)
    THEN /\ Idle
         /\ last' = [Unreachable("api_create", data) EXCEPT
                        !.fstatus = 400, !.fbody = [error |-> "No job data provided"]]
         /\ ReadFrame
    ELSE \/ \E p \in Pods : ServeCreate("api_create", p, data)
         \/ Idle /\ last' = Unreachable("api_create", data) /\ ReadFrame

ApiInfo ==
    /\ Idle
    /\ last' = [NoExchange EXCEPT !.via = "api_info", !.fstatus = api_info.status,
                                  !.fbody = api_info.body]
    /\ ReadFrame

\* the response of the completed exchange is handed to the client
Respond ==
    /\ ~Idle
    /\ last' = NoExchange
    /\ ReadFrame

Next ==
    \/ \E p \in Pods, mode \in LaunchModes : Launch(p, mode)
    \/ \E p \in Pods : FirstRequest(p)
    \/ \E p \in Pods : Connect(p)
    \/ \E p \in Pods : CreateKeyspace(p)
    \/ \E p \in Pods : UseKeyspace(p)
    \/ \E p \in Pods : CreateTable(p)
    \/ \E p \in Pods : CountJobs(p)
    \/ \E p \in Pods : InsertSeed(p)
    \/ \E p \in Pods : ServeRoot("direct", p)
    \/ \E p \in Pods : ServeJobs("direct", p)
    \/ \E p \in Pods : ServeHealth("direct", p)
    \/ \E p \in Pods, data \in Bodies : ServeCreate("direct", p, data)
    \/ \E p \in Pods : ServeInfo(p)
    \/ ApiJob
    \/ ApiJobs
    \/ ApiHealth
    \/ \E data \in Bodies : ApiCreateJob(data)
    \/ ApiInfo
    \/ StoreFail
    \/ StoreRecover
    \/ Respond

Spec == Init /\ [][Next]_vars

-----------------------------------------------------------------------------
(* Properties *)

\* the completed exchange is the backend's answer to route
Answered(route) == last.route = route

\* a create body without a usable title or description: no body, title
\* absent or empty, description absent or empty
BadBody(req) ==
    \/ req = None
    \/ "title" \notin DOMAIN req[1]
    \/ "description" \notin DOMAIN req[1]
    \/ req[1]["title"] = ""
    \/ req[1]["description"] = ""

\* the completed exchange is a POST /jobs that supplied exactly title and
\* description, both non-empty, and was answered with success
CreatedWithDefaults ==
    /\ Answered("POST /jobs")
    /\ last.status = 200
    /\ DOMAIN last.req[1] = {"title", "description"}

\* the completed exchange is a GET /jobs answered by a pod whose session
\* reaches the table
ListedFromStore == Answered("GET /jobs") /\ CanQuery(last.pod)

C2_RejectedCreate ==
    [][ (Answered("POST /jobs") /\ BadBody(last.req))' =>
           /\ last'.status = 400
           /\ jobs' = jobs
           /\ seq' = seq ]_vars

\* a POST /jobs whose description is empty was answered, the store being
\* reachable from the pod
C2_Witness ==
    /\ Answered("POST /jobs")
    /\ last.req = Some([title |-> "t", description |-> ""])
    /\ CanQuery(last.pod)
    /\ last.status = 400

\* C3: when at least two runs of initialize_schema have returned True, none
\* has returned False and no two runs overlapped, the table holds exactly 5
\* seed rows; and a run that read a count above 0 has inserted no row.
C3_SeedOnce ==
    /\ (hist.ok >= 2 /\ hist.bad = 0 /\ ~hist.overlapped)
          => Cardinality(SeedRows) = SampleCount
    /\ \A p \in Pods : count[p] > 0 => seedIdx[p] = 0

\* a pod's second run (the hook after the __main__ block) read count 5 and
\* returned True after its first run seeded the table
C3_Witness ==
    /\ hist.ok >= 2 /\ hist.bad = 0 /\ ~hist.overlapped
    /\ \E p \in Pods : count[p] = SampleCount /\ seedIdx[p] = 0 /\ initOk[p] = "true"
    /\ Cardinality(SeedRows) = SampleCount

\* C4 as claimed, for a pod whose initialization succeeded: GET /health
\* answers 200 "healthy" / "connected" when the cluster is up and the table
\* has a row, and 500 "unhealthy" when the cluster has gone down since.
C4_Claimed ==
    (Answered("GET /health") /\ initOk[last.pod] = "true") =>
       /\ (storeUp /\ jobs # {}) =>
             /\ last.status = 200
             /\ last.body.status = "healthy"
             /\ last.body.database = "connected"
       /\ ~storeUp =>
             /\ last.status = 500
             /\ last.body.status = "unhealthy"

C6_Claimed ==
    /\ (Answered("GET /") \/ Answered("GET /jobs")
          \/ (Answered("POST /jobs") /\ ~BadBody(last.req)))
    /\ (~storeUp \/ session[last.pod] = "none")
    => last.status = 500

\* C7 as claimed: a pod whose initialization trigger returned False has
\* exited with status 1, and a pod answers a request only with its session
\* connected to the keyspace and the table created.
C7_Claimed ==
    /\ \A p \in Pods :
          initOk[p] = "false" => (phase[p] = "exited" /\ exitCode[p] = 1)
    /\ last.pod \in Pods => (session[last.pod] = "open_ks" /\ tableExists)

\* C8: GET /api/job answers 200 with the very body the backend's GET / gave
\* when the backend answered 2xx, and 500 with the fixed error body when the
\* call to the backend failed.
C8_ProxyJob ==
    last.via = "api_job" =>
       IF Answered("GET /") /\ last.status \in 200..299
       THEN last.fstatus = 200 /\ last.fbody = last.body
       ELSE /\ last.fstatus = 500
            /\ last.fbody = [error |-> "Failed to fetch job from backend"]

\* GET /api/job passed a job of the table on
C8_Witness ==
    /\ last.via = "api_job"
    /\ last.fstatus = 200
    /\ "job" \in DOMAIN last.fbody
    /\ "id" \in DOMAIN last.fbody.job

\* C9 as claimed: POST /api/jobs with a non-empty body that lacks title or
\* description, the backend having answered, is answered 400.
C9_Claimed ==
    (/\ last.via = "api_create"
     /\ Answered("POST /jobs")
     /\ DictTruthy(last.req)
     /\ BadBody(last.req))
    => last.fstatus = 400

\* C10: the table never holds more than 5 seed rows per pod, and never more
\* than 5 unless two runs of initialize_schema overlapped.
C10_SeedRace ==
    /\ Cardinality(SeedRows) <= SampleCount * Cardinality(Pods)
    /\ ~hist.overlapped => Cardinality(SeedRows) <= SampleCount

\* two overlapping runs both read count 0 and the table holds 10 seed rows
C10_Witness ==
    /\ \E p, q \in Pods : p # q /\ count[p] = 0 /\ count[q] = 0
    /\ hist.overlapped
    /\ Cardinality(SeedRows) = 2 * SampleCount

====
